---------------------------- MODULE Spec2Model ----------------------------
(***************************************************************************)
(* Model of syft/serde.py: the type-directed simplify/detail engine, the   *)
(* collection transforms, and the serialize/deserialize pipeline around    *)
(* msgpack, lz4 and pickle.                                                *)
(*                                                                         *)
(* A Python object is a record [t |-> exact runtime type, v |-> payload].  *)
(* A Tensor also carries `dumps`, the behaviour of pickle.dumps on it      *)
(* ("ok", or the name of the exception it raises).                         *)
(* A call's outcome is a record: ok, the returned object `val`, or the     *)
(* exception `err` and the function `at` that raised it, and `arg`, the    *)
(* argument object as it is once the call is over.                         *)
(***************************************************************************)
EXTENDS Integers, Sequences, FiniteSets, TLC

VARIABLES
    simplifiers,      \* module-level dict: type -> simplifier
    detailers,        \* module-level dict: type -> detailer
    pc,               \* the call the caller made last
    input,            \* the caller's object
    use_compression,  \* serialize's `compress` argument
    simple,           \* outcome of the caller's _simplify(input)
    message,          \* outcome of serialize(input, ...), of compress(...) after it
    was_compressed,   \* deserialize's `compressed` argument
    output            \* outcome of _detail(...) / deserialize(...)

vars == <<simplifiers, detailers, pc, input, use_compression, simple,
          message, was_compressed, output>>

----------------------------------------------------------------------------
(* Bounds *)

\* Largest number of nodes (objects, containers included) of an input graph.
MaxNodes == 4

----------------------------------------------------------------------------
(* Python objects *)

PyNone == [t |-> "NoneType", v |-> <<>>]
PyBool(b) == [t |-> "bool", v |-> b]
PyInt(n) == [t |-> "int", v |-> n]
\* a float is its IEEE-754 double, eight bytes, big-endian
PyFloat(bits) == [t |-> "float", v |-> bits]
\* a str is its sequence of (ASCII) code points
PyStr(s) == [t |-> "str", v |-> s]
PyBytes(b) == [t |-> "bytes", v |-> b]
PyList(s) == [t |-> "list", v |-> s]
PyTuple(s) == [t |-> "tuple", v |-> s]
PySet(S) == [t |-> "set", v |-> S]
\* a dict is its sequence of <<key, value>> items, in insertion order
PyDict(items) == [t |-> "dict", v |-> items]
\* class MyList(list): an instance of a subclass of list
PyMyList(s) == [t |-> "MyList", v |-> s]
\* an instance of a user class with no native wire form
PyCustom == [t |-> "Custom", v |-> <<>>]
Tensor(data, d) == [t |-> "Tensor", v |-> data, dumps |-> d]

type(o) == o.t

\* outcomes of calls
Ok(val, arg) == [ok |-> TRUE, val |-> val, err |-> "", at |-> "", arg |-> arg]
Raise(err, at, arg) == [ok |-> FALSE, val |-> PyNone, err |-> err, at |-> at, arg |-> arg]
NoCall == [ok |-> FALSE, val |-> PyNone, err |-> "", at |-> "", arg |-> PyNone]


----------------------------------------------------------------------------
(* pickle: the opaque codec of Tensor (lines 72 and 76).                   *)
(* A pickle is: an optional PROTO header (0x80, version), one value, STOP  *)
(* ('.', 46); bytes after STOP are ignored.  Values modelled: NONE ('N'),  *)
(* BININT1 ('K', n), NEWTRUE (0x88), NEWFALSE (0x89), and a tensor, whose  *)
(* GLOBAL ... REDUCE program is abridged to 'c', length, data, 'R'.        *)

pickle_dumps(tensor) ==
    IF tensor.dumps = "ok"
    THEN Ok(PyBytes(<<128, 2, 99, Len(tensor.v)>> \o tensor.v \o <<82, 46>>), tensor)
    ELSE Raise(tensor.dumps, "pickle.dumps", tensor)

pickle_loads(b) ==
    LET s == b.v
        p == IF Len(s) >= 2 /\ s[1] = 128 THEN SubSeq(s, 3, Len(s)) ELSE s
        n == Len(p)
        bad == Raise("UnpicklingError", "pickle.loads", b)
    IN  IF n >= 2 /\ p[1] = 78 /\ p[2] = 46 THEN Ok(PyNone, b)
        ELSE IF n >= 2 /\ p[1] = 136 /\ p[2] = 46 THEN Ok(PyBool(TRUE), b)
        ELSE IF n >= 2 /\ p[1] = 137 /\ p[2] = 46 THEN Ok(PyBool(FALSE), b)
        ELSE IF n >= 3 /\ p[1] = 75 /\ p[3] = 46 THEN Ok(PyInt(p[2]), b)
        ELSE IF n >= 2 /\ p[1] = 99
             THEN IF n >= p[2] + 4 /\ p[p[2] + 3] = 82 /\ p[p[2] + 4] = 46
                  THEN Ok(Tensor(SubSeq(p, 3, p[2] + 2), "ok"), b)
                  ELSE bad
        ELSE bad

----------------------------------------------------------------------------
(* msgpack (lines 42 and 55), with its defaults: use_bin_type, raw=False,  *)
(* use_list, strict_map_key.  Formats: positive fixint, fixmap, fixarray,  *)
(* fixstr, nil, false, true, bin 8, float 64, negative fixint.  The ints,  *)
(* strs, bytes and containers of the model fit these formats.              *)

RECURSIVE Pack(_), PackAll(_)

\* [ok, b, err]: the bytes of one object, or the packer's exception
Pack(o) ==
    CASE type(o) = "NoneType" -> [ok |-> TRUE, b |-> <<192>>, err |-> ""]
      [] type(o) = "bool" -> [ok |-> TRUE, b |-> IF o.v THEN <<195>> ELSE <<194>>, err |-> ""]
      [] type(o) = "int" /\ o.v \in 0..127 -> [ok |-> TRUE, b |-> <<o.v>>, err |-> ""]
      [] type(o) = "int" /\ o.v \in (-32)..(-1) -> [ok |-> TRUE, b |-> <<256 + o.v>>, err |-> ""]
      [] type(o) = "float" -> [ok |-> TRUE, b |-> <<203>> \o o.v, err |-> ""]
      [] type(o) = "str" /\ Len(o.v) < 32 -> [ok |-> TRUE, b |-> <<160 + Len(o.v)>> \o o.v, err |-> ""]
      [] type(o) = "bytes" /\ Len(o.v) < 256 -> [ok |-> TRUE, b |-> <<196, Len(o.v)>> \o o.v, err |-> ""]
      [] type(o) \in {"list", "tuple", "MyList"} /\ Len(o.v) < 16 ->
            LET r == PackAll(o.v)
            IN  IF r.ok THEN [r EXCEPT !.b = <<144 + Len(o.v)>> \o r.b] ELSE r
      [] type(o) = "dict" /\ Len(o.v) < 16 ->
            LET flat == [i \in 1..(2 * Len(o.v)) |-> o.v[(i + 1) \div 2][2 - (i % 2)]]
                r == PackAll(flat)
            IN  IF r.ok THEN [r EXCEPT !.b = <<128 + Len(o.v)>> \o r.b] ELSE r
      [] type(o) \in {"set", "Tensor", "Custom"} ->
            [ok |-> FALSE, b |-> <<>>, err |-> "TypeError"]

PackAll(items) ==
    IF items = <<>> THEN [ok |-> TRUE, b |-> <<>>, err |-> ""]
    ELSE LET h == Pack(Head(items))
         IN  IF ~h.ok THEN h
             ELSE LET r == PackAll(Tail(items))
                  IN  IF r.ok THEN [r EXCEPT !.b = h.b \o r.b] ELSE r

msgpack_dumps(o) ==
    LET r == Pack(o)
    IN  IF r.ok THEN Ok(PyBytes(r.b), o) ELSE Raise(r.err, "msgpack.dumps", o)

RECURSIVE Unpack(_, _), UnpackAll(_, _, _)

\* [ok, val, next, err]: the object that starts at s[i] and the index after it
Unpack(s, i) ==
    LET fail(e) == [ok |-> FALSE, val |-> PyNone, next |-> i, err |-> e]
        done(o, j) == [ok |-> TRUE, val |-> o, next |-> j, err |-> ""]
    IN  IF i > Len(s) THEN fail("ValueError")
        ELSE LET b == s[i] IN
        CASE b \in 0..127 -> done(PyInt(b), i + 1)
          [] b \in 224..255 -> done(PyInt(b - 256), i + 1)
          [] b = 192 -> done(PyNone, i + 1)
          [] b = 194 -> done(PyBool(FALSE), i + 1)
          [] b = 195 -> done(PyBool(TRUE), i + 1)
          [] b = 203 ->
                IF i + 8 > Len(s) THEN fail("ValueError")
                ELSE done(PyFloat(SubSeq(s, i + 1, i + 8)), i + 9)
          [] b \in 160..191 ->
                IF i + (b - 160) > Len(s) THEN fail("ValueError")
                ELSE done(PyStr(SubSeq(s, i + 1, i + (b - 160))), i + (b - 160) + 1)
          [] b = 196 ->
                IF i + 1 > Len(s) \/ i + 1 + s[i + 1] > Len(s) THEN fail("ValueError")
                ELSE done(PyBytes(SubSeq(s, i + 2, i + 1 + s[i + 1])), i + 2 + s[i + 1])
          [] b \in 144..159 ->
                LET r == UnpackAll(s, i + 1, b - 144)
                IN  IF r.ok THEN done(PyList(r.val), r.next) ELSE fail(r.err)
          [] b \in 128..143 ->
                LET r == UnpackAll(s, i + 1, 2 * (b - 128))
                    items == [k \in 1..(b - 128) |-> <<r.val[2 * k - 1], r.val[2 * k]>>]
                IN  IF ~r.ok THEN fail(r.err)
                    ELSE IF \E k \in 1..(b - 128) : type(items[k][1]) \notin {"str", "bytes"}
                    THEN fail("ValueError")
                    ELSE done(PyDict(items), r.next)

\* n objects in a row, from s[i]
UnpackAll(s, i, n) ==
    IF n = 0 THEN [ok |-> TRUE, val |-> <<>>, next |-> i, err |-> ""]
    ELSE LET h == Unpack(s, i)
         IN  IF ~h.ok THEN [h EXCEPT !.val = <<>>]
             ELSE LET r == UnpackAll(s, h.next, n - 1)
                  IN  IF r.ok THEN [r EXCEPT !.val = <<h.val>> \o r.val] ELSE r

msgpack_loads(b) ==
    LET r == Unpack(b.v, 1)
    IN  IF ~r.ok THEN Raise(r.err, "msgpack.loads", b)
        ELSE IF r.next <= Len(b.v) THEN Raise("ExtraData", "msgpack.loads", b)
        ELSE Ok(r.val, b)

----------------------------------------------------------------------------
(* lz4.frame (lines 62 and 66).  A frame: magic number 0x184D2204          *)
(* little-endian, FLG (version 01, independent blocks, content size), BD   *)
(* (64 KB blocks), content size (8 bytes), header checksum, one data block *)
(* (4-byte size, top bit set: stored), end mark.  A message as short as    *)
(* the model's does not shrink, and lz4 stores its block as it is.  The    *)
(* header checksum (a byte of xxh32) is stood for by a byte sum.  The      *)
(* submodule lz4.frame is taken to be loaded (line 35 imports lz4 alone).  *)

LZ4Magic == <<4, 34, 77, 24>>

LZ4Header(n) ==
    LET d == <<104, 64, n % 256, n \div 256, 0, 0, 0, 0, 0, 0>>
    IN  d \o <<(104 + 64 + (n % 256) + (n \div 256)) % 256>>

compress(decompressed_input_bin) ==
    LET s == decompressed_input_bin.v
        n == Len(s)
    IN  Ok(PyBytes(LZ4Magic \o LZ4Header(n) \o <<n % 256, n \div 256, 0, 128>>
                   \o s \o <<0, 0, 0, 0>>),
           decompressed_input_bin)

\* mutant: bytes that are no frame are taken to be uncompressed already
decompress_lenient(compressed_input_bin) ==
    LET s == compressed_input_bin.v
        n == Len(s) - 23
    IN  IF Len(s) >= 4 /\ SubSeq(s, 1, 4) = LZ4Magic
        THEN IF /\ n >= 0
                /\ SubSeq(s, 5, 15) = LZ4Header(n)
                /\ SubSeq(s, 16, 19) = <<n % 256, n \div 256, 0, 128>>
                /\ SubSeq(s, 20 + n, 23 + n) = <<0, 0, 0, 0>>
             THEN Ok(PyBytes(SubSeq(s, 20, 19 + n)), compressed_input_bin)
             ELSE Raise("RuntimeError", "decompress", compressed_input_bin)
        ELSE Ok(compressed_input_bin, compressed_input_bin)

decompress(compressed_input_bin) ==
    LET s == compressed_input_bin.v
        n == Len(s) - 23
    IN  IF /\ n >= 0
           /\ SubSeq(s, 1, 4) = LZ4Magic
           /\ SubSeq(s, 5, 15) = LZ4Header(n)
           /\ SubSeq(s, 16, 19) = <<n % 256, n \div 256, 0, 128>>
           /\ SubSeq(s, 20 + n, 23 + n) = <<0, 0, 0, 0>>
        THEN Ok(PyBytes(SubSeq(s, 20, 19 + n)), compressed_input_bin)
        ELSE Raise("RuntimeError", "decompress", compressed_input_bin)

----------------------------------------------------------------------------
(* Containers *)

RECURSIVE Hashable(_), SetToSeq(_)

\* hash(o) succeeds: what a set may hold
Hashable(o) ==
    CASE type(o) \in {"list", "set", "dict", "MyList"} -> FALSE
      [] type(o) = "tuple" -> \A i \in 1..Len(o.v) : Hashable(o.v[i])
      [] OTHER -> TRUE

\* the order in which a set is iterated: some order, fixed for a given set
SetToSeq(S) ==
    IF S = {} THEN <<>>
    ELSE LET e == CHOOSE e \in S : TRUE IN <<e>> \o SetToSeq(S \ {e})

\* `for part in my_collection`: the parts, in iteration order
Iterate(my_collection) ==
    IF type(my_collection) = "set" THEN SetToSeq(my_collection.v) ELSE my_collection.v

Range(s) == {s[i] : i \in 1..Len(s)}

\* my_type(pieces): a list, tuple, set (or list subclass) built from the list
\* `pieces`
Construct(my_type, pieces, arg) ==
    CASE my_type = "list" -> Ok(PyList(pieces), arg)
      [] my_type = "MyList" -> Ok(PyMyList(pieces), arg)
      [] my_type = "tuple" -> Ok(PyTuple(pieces), arg)
      [] my_type = "set" ->
            IF \A i \in 1..Len(pieces) : Hashable(pieces[i])
            THEN Ok(PySet(Range(pieces)), arg)
            ELSE Raise("TypeError", "_simplify_collection", arg)

\* the container `my_collection`, its parts being the objects `parts`
WithParts(my_collection, parts) ==
    IF type(my_collection) = "set"
    THEN [my_collection EXCEPT !.v = Range(parts)]
    ELSE [my_collection EXCEPT !.v = parts]

Min(S) == CHOOSE m \in S : \A n \in S : m <= n

----------------------------------------------------------------------------
(* The engine *)

\* Torch Tensor
_simplify_torch_tensor(tensor) == pickle_dumps(tensor)

_detail_torch_tensor(tensor) == pickle_loads(tensor)

RECURSIVE _simplify(_), _simplify_collection(_), _detail(_), _detail_collection(_),
          Call(_, _)

\* mutant: the pieces are returned as the list they were collected in
_simplify_collection_aslist(my_collection) ==
    LET parts == Iterate(my_collection)
        rs == [i \in 1..Len(parts) |-> _simplify(parts[i])]
        failed == {i \in 1..Len(parts) : ~rs[i].ok}
        pieces == [i \in 1..Len(parts) |-> rs[i].val]
    IN  IF failed # {} THEN [rs[Min(failed)] EXCEPT !.arg = my_collection]
        ELSE Ok(PyList(pieces), my_collection)

\* mutant: a list's parts are simplified in place, my_collection[i] = piece
_simplify_collection_inplace(my_collection) ==
    LET my_type == type(my_collection)
        parts == Iterate(my_collection)
        rs == [i \in 1..Len(parts) |-> _simplify(parts[i])]
        failed == {i \in 1..Len(parts) : ~rs[i].ok}
        last == IF failed = {} THEN Len(parts) ELSE Min(failed)
        pieces == [i \in 1..Len(parts) |-> rs[i].val]
        arg == IF my_type = "list"
               THEN PyList([i \in 1..Len(parts) |->
                              IF i <= last /\ rs[i].ok THEN pieces[i] ELSE parts[i]])
               ELSE my_collection
    IN  IF failed # {} THEN [rs[last] EXCEPT !.arg = arg]
        ELSE Construct(my_type, pieces, arg)

\* the for loop stops at the first part whose _simplify raises; otherwise the
\* pieces are made into a container of my_collection's type
_simplify_collection(my_collection) ==
    LET my_type == type(my_collection)
        parts == Iterate(my_collection)
        rs == [i \in 1..Len(parts) |-> _simplify(parts[i])]
        failed == {i \in 1..Len(parts) : ~rs[i].ok}
        last == IF failed = {} THEN Len(parts) ELSE Min(failed)
        pieces == [i \in 1..Len(parts) |-> rs[i].val]
        arg == WithParts(my_collection,
                         [i \in 1..Len(parts) |-> IF i <= last THEN rs[i].arg ELSE parts[i]])
    IN  IF failed # {} THEN [rs[last] EXCEPT !.arg = arg]
        ELSE Construct(my_type, pieces, arg)

_detail_collection(my_collection) ==
    LET parts == Iterate(my_collection)
        rs == [i \in 1..Len(parts) |-> _detail(parts[i])]
        failed == {i \in 1..Len(parts) : ~rs[i].ok}
        last == IF failed = {} THEN Len(parts) ELSE Min(failed)
        pieces == [i \in 1..Len(parts) |-> rs[i].val]
        arg == WithParts(my_collection,
                         [i \in 1..Len(parts) |-> IF i <= last THEN rs[i].arg ELSE parts[i]])
    IN  IF failed # {} THEN [rs[last] EXCEPT !.arg = arg]
        ELSE Ok(PyList(pieces), arg)

\* a registry's value, called
Call(fn, o) ==
    CASE fn = "_simplify_torch_tensor" -> _simplify_torch_tensor(o)
      [] fn = "_simplify_collection" -> _simplify_collection(o)
      [] fn = "_detail_torch_tensor" -> _detail_torch_tensor(o)
      [] fn = "_detail_collection" -> _detail_collection(o)

\* mutant: dispatch on isinstance, a subclass of list taken for a list
_simplify_isinstance(obj) ==
    LET key == IF type(obj) = "MyList" THEN "list" ELSE type(obj)
    IN  IF key \in DOMAIN simplifiers
        THEN LET r == Call(simplifiers[key], obj)
             IN  IF ~r.ok /\ r.err = "KeyError" THEN Ok(obj, r.arg) ELSE r
        ELSE Ok(obj, obj)

\* High Level Simplification Router.  `except KeyError` catches the failed
\* lookup and any KeyError raised inside the simplifier alike.
_simplify(obj) ==
    IF type(obj) \in DOMAIN simplifiers
    THEN LET r == Call(simplifiers[type(obj)], obj)
         IN  IF ~r.ok /\ r.err = "KeyError" THEN Ok(obj, r.arg) ELSE r
    ELSE Ok(obj, obj)

_detail(obj) ==
    LET t == type(obj)
    IN  IF t \in DOMAIN detailers THEN Call(detailers[t], obj) ELSE Ok(obj, obj)

\* High Level Public Functions.  In serialize the parameter `compress` hides
\* the module's function compress: compress(binary) calls the bool.
serialize(obj, compress_flag) ==
    LET simple_objects == _simplify(obj)
        binary == msgpack_dumps(simple_objects.val)
    IN  IF ~simple_objects.ok THEN simple_objects
        ELSE IF ~binary.ok THEN [binary EXCEPT !.arg = simple_objects.arg]
        ELSE IF compress_flag
             THEN Raise("TypeError", "serialize", simple_objects.arg)
             ELSE Ok(binary.val, simple_objects.arg)

deserialize(binary, compressed) ==
    LET raw == IF compressed THEN decompress(binary) ELSE Ok(binary, binary)
        simple_objects == msgpack_loads(raw.val)
    IN  IF ~raw.ok THEN raw
        ELSE IF ~simple_objects.ok THEN [simple_objects EXCEPT !.arg = binary]
        ELSE [_detail(simple_objects.val) EXCEPT !.arg = binary]

----------------------------------------------------------------------------
(* The objects a caller passes *)

TensorOk == Tensor(<<7>>, "ok")
TensorKeyError == Tensor(<<8>>, "KeyError")
TensorRuntimeError == Tensor(<<9>>, "RuntimeError")
\* b"x": no pickle;  b"N.": the pickle of None
BytesX == PyBytes(<<120>>)
BytesPickle == PyBytes(<<78, 46>>)
\* {"k": 1}
DictK1 == PyDict(<< <<PyStr(<<107>>), PyInt(1)>> >>)

\* the objects found inside containers
Atoms == {PyInt(1), BytesX, TensorOk, TensorKeyError}

\* the objects passed on their own as well: 2.5, "a", [{"k": 1}], ...
Leaves ==
    Atoms \cup {PyNone, PyBool(TRUE), PyFloat(<<64, 4, 0, 0, 0, 0, 0, 0>>),
                PyStr(<<97>>), BytesPickle, PyDict(<<>>), DictK1, PyList(<<DictK1>>),
                TensorRuntimeError, PyList(<<TensorOk, TensorRuntimeError, TensorOk>>),
                PySet({TensorRuntimeError}), PyMyList(<<TensorOk>>), PyCustom}

RECURSIVE Forests(_, _), TreeTable(_)

\* the sequences of objects with n nodes in all, T[k] being the objects with k
Forests(T, n) ==
    IF n = 0 THEN {<<>>}
    ELSE UNION {{<<o>> \o f : o \in T[k], f \in Forests(T, n - k)} : k \in 1..n}

\* <<the object graphs with exactly k nodes : k = 1..n>>: atoms, and lists,
\* tuples and sets of such graphs (a set holds distinct hashable objects)
TreeTable(n) ==
    IF n = 1 THEN <<Atoms \cup {PyList(<<>>), PyTuple(<<>>), PySet({})}>>
    ELSE LET T == TreeTable(n - 1)
             F == Forests(T, n - 1)
         IN  Append(T, {PyList(f) : f \in F} \cup {PyTuple(f) : f \in F}
                       \cup {PySet(Range(f)) :
                               f \in {g \in F : /\ \A i \in 1..Len(g) : Hashable(g[i])
                                                /\ Cardinality(Range(g)) = Len(g)}})

Inputs == Leaves \cup UNION Range(TreeTable(MaxNodes))

----------------------------------------------------------------------------
(* The caller *)

Init ==
    /\ simplifiers = [t \in {"Tensor", "tuple", "list", "set"} |->
                        IF t = "Tensor" THEN "_simplify_torch_tensor"
                        ELSE "_simplify_collection"]
    /\ detailers = [t \in {"tuple", "list", "bytes"} |->
                        IF t = "bytes" THEN "_detail_torch_tensor"
                        ELSE "_detail_collection"]
    /\ pc = "start"
    /\ input \in Inputs
    /\ use_compression = FALSE
    /\ was_compressed = FALSE
    /\ simple = NoCall
    /\ message = NoCall
    /\ output = NoCall

\* simple = _simplify(input)
Simplify ==
    /\ pc = "start"
    /\ LET r == _simplify(input)
       IN  /\ simple' = r
           /\ input' = r.arg
    /\ pc' = "simplified"
    /\ UNCHANGED <<simplifiers, detailers, use_compression, message,
                   was_compressed, output>>

\* output = _detail(simple)
Detail ==
    /\ pc = "simplified"
    /\ simple.ok
    /\ LET r == _detail(simple.val)
       IN  /\ output' = r
           /\ simple' = [simple EXCEPT !.val = r.arg]
    /\ pc' = "detailed"
    /\ UNCHANGED <<simplifiers, detailers, input, use_compression, message,
                   was_compressed>>

\* message = serialize(input, compress=c)
Serialize(c) ==
    /\ pc = "start"
    /\ LET r == serialize(input, c)
       IN  /\ message' = r
           /\ input' = r.arg
    /\ use_compression' = c
    /\ pc' = "serialized"
    /\ UNCHANGED <<simplifiers, detailers, simple, was_compressed, output>>

\* message = compress(message): the caller compresses what serialize(input,
\* compress=False) returned
Compress ==
    /\ pc = "serialized"
    /\ message.ok
    /\ message' = [compress(message.val) EXCEPT !.arg = message.arg]
    /\ pc' = "framed"
    /\ UNCHANGED <<simplifiers, detailers, input, use_compression, simple,
                   was_compressed, output>>

\* output = deserialize(message, compressed=c)
Deserialize(c) ==
    /\ pc \in {"serialized", "framed"}
    /\ message.ok
    /\ LET r == deserialize(message.val, c)
       IN  /\ output' = r
           /\ message' = [message EXCEPT !.val = r.arg]
    /\ was_compressed' = c
    /\ pc' = IF pc = "framed" THEN "deserialized_frame" ELSE "deserialized"
    /\ UNCHANGED <<simplifiers, detailers, input, use_compression, simple>>

Next ==
    \/ Simplify
    \/ Detail
    \/ \E c \in BOOLEAN : Serialize(c)
    \/ Compress
    \/ \E c \in BOOLEAN : Deserialize(c)

Spec == Init /\ [][Next]_vars

----------------------------------------------------------------------------
(* Vocabulary of the properties *)

\* the exact types of the wire format's scalars
PrimitiveTypes == {"NoneType", "bool", "int", "float", "str", "bytes"}

IsPrimitive(o) == type(o) \in PrimitiveTypes

\* a tensor whose codec keeps its contract: pickle.dumps returns
HealthyTensor(o) == type(o) = "Tensor" /\ o.dumps = "ok"

RECURSIVE EndToEnd(_), WireSafe(_), BuiltFromRegistered(_), SimplifyErrors(_),
          DetailErrors(_)

\* supported end to end: a primitive, a mapping of primitives, a list of such
EndToEnd(o) ==
    CASE IsPrimitive(o) -> TRUE
      [] type(o) = "dict" ->
            \A i \in 1..Len(o.v) : IsPrimitive(o.v[i][1]) /\ IsPrimitive(o.v[i][2])
      [] type(o) = "list" -> \A i \in 1..Len(o.v) : EndToEnd(o.v[i])
      [] OTHER -> FALSE

\* every node is null, boolean, integer, float, string, byte-blob, an ordered
\* sequence or a mapping
WireSafe(o) ==
    CASE IsPrimitive(o) -> TRUE
      [] type(o) \in {"list", "tuple"} -> \A i \in 1..Len(o.v) : WireSafe(o.v[i])
      [] type(o) = "dict" ->
            \A i \in 1..Len(o.v) : WireSafe(o.v[i][1]) /\ WireSafe(o.v[i][2])
      [] OTHER -> FALSE

\* built from primitives, tensors and the registered container kinds
BuiltFromRegistered(o) ==
    CASE IsPrimitive(o) -> TRUE
      [] type(o) = "Tensor" -> HealthyTensor(o)
      [] type(o) \in {"list", "tuple"} ->
            \A i \in 1..Len(o.v) : BuiltFromRegistered(o.v[i])
      [] type(o) = "set" -> \A e \in o.v : BuiltFromRegistered(e)
      [] OTHER -> FALSE

\* the exceptions the registered simplifiers raise on the parts of o that the
\* traversal reaches
SimplifyErrors(o) ==
    CASE type(o) = "Tensor" -> IF o.dumps = "ok" THEN {} ELSE {o.dumps}
      [] type(o) \in {"list", "tuple"} ->
            UNION {SimplifyErrors(o.v[i]) : i \in 1..Len(o.v)}
      [] type(o) = "set" -> UNION {SimplifyErrors(e) : e \in o.v}
      [] OTHER -> {}

\* likewise for the registered detailers
DetailErrors(o) ==
    CASE type(o) = "bytes" ->
            IF pickle_loads(o).ok THEN {} ELSE {pickle_loads(o).err}
      [] type(o) \in {"list", "tuple"} ->
            UNION {DetailErrors(o.v[i]) : i \in 1..Len(o.v)}
      [] OTHER -> {}

----------------------------------------------------------------------------
(* Properties *)

\* C1: message round trip.  For every object supported end to end,
\* serialize(obj, c) completes, returns compress(raw) when c and raw otherwise,
\* and deserialize of it with the same flag completes and equals obj.
MessageRoundTrip ==
    /\ pc = "serialized" /\ EndToEnd(input) =>
          /\ message.ok
          /\ LET raw == msgpack_dumps(_simplify(input).val).val
             IN  message.val = IF use_compression THEN compress(raw).val ELSE raw
    /\ pc = "deserialized" /\ EndToEnd(input) /\ was_compressed = use_compression =>
          output.ok /\ output.val = input

\* C2: round trip of leaves.  For a primitive (null, boolean, integer, float,
\* string, byte-blob) or a tensor whose codec round-trips,
\* _detail(_simplify(v)) completes and equals v.
LeafRoundTrip ==
    /\ pc = "simplified" /\ (IsPrimitive(input) \/ HealthyTensor(input)) => simple.ok
    /\ pc = "detailed" /\ (IsPrimitive(input) \/ HealthyTensor(input)) =>
          output.ok /\ output.val = input

\* C3: wire-safe invariant.  For an input built from primitives, tensors and
\* lists, tuples and sets of such, every node of _simplify(input) is in the
\* closed set: no tensor, no other container kind.
WireSafeInvariant ==
    pc = "simplified" /\ BuiltFromRegistered(input) =>
        simple.ok /\ WireSafe(simple.val)

\* C4: set round trip.  For a set s of primitives and tensors,
\* _detail(_simplify(s)) is an ordered sequence (a list) whose elements are the
\* detailed simplified elements of s.
SetRoundTrip ==
    pc = "detailed" /\ type(input) = "set"
       /\ (\A e \in input.v : IsPrimitive(e) \/ HealthyTensor(e)) =>
          /\ output.ok
          /\ type(output.val) = "list"
          /\ Range(output.val.v) = {_detail(_simplify(e).val).val : e \in input.v}

\* C5: no silent recovery.  If a registered simplifier or detailer raises on a
\* part of the value, at any depth, _simplify/_detail and serialize raise that
\* exception; the part is never passed through untransformed.
NoSilentRecovery ==
    /\ pc = "simplified" /\ SimplifyErrors(input) # {} =>
          ~simple.ok /\ simple.err \in SimplifyErrors(input)
    /\ pc = "serialized" /\ SimplifyErrors(input) # {} =>
          ~message.ok /\ message.err \in SimplifyErrors(input)
    /\ pc = "detailed" /\ DetailErrors(simple.val) # {} =>
          ~output.ok /\ output.err \in DetailErrors(simple.val)

\* C6: pass-through with exact-type dispatch.  A value whose exact type has no
\* simplifier is returned by _simplify as it is, an instance of a subclass of
\* list included; likewise _detail and the detailers.
PassThrough ==
    /\ pc = "simplified" /\ type(input) \notin DOMAIN simplifiers =>
          simple.ok /\ simple.val = input
    /\ pc = "detailed" /\ type(simple.val) \notin DOMAIN detailers =>
          output.ok /\ output.val = simple.val

\* a MyList([tensor]) went through _simplify and _detail
PassThroughWitness ==
    /\ pc = "detailed"
    /\ type(input) = "MyList"
    /\ output.val = input

CollectionKindPreserved ==
    pc = "simplified" /\ type(input) \in {"list", "tuple", "set"} /\ simple.ok =>
        /\ type(simple.val) = type(input)
        /\ type(input) \in {"list", "tuple"} =>
              /\ Len(simple.val.v) = Len(input.v)
              /\ \A i \in 1..Len(input.v) :
                    /\ simple.val.v[i] = _simplify(input.v[i]).val
                    /\ HealthyTensor(input.v[i]) =>
                          simple.val.v[i] = pickle_dumps(input.v[i]).val
                    /\ IsPrimitive(input.v[i]) => simple.val.v[i] = input.v[i]
                    /\ type(input.v[i]) \in {"list", "tuple", "set"} =>
                          type(simple.val.v[i]) = type(input.v[i])
        /\ type(input) = "set" =>
              simple.val.v = {_simplify(e).val : e \in input.v}

\* a tuple whose first element is a list of a tensor was simplified
CollectionKindPreservedWitness ==
    /\ pc = "simplified"
    /\ simple.ok
    /\ type(input) = "tuple" /\ Len(input.v) = 2
    /\ type(input.v[1]) = "list" /\ Len(input.v[1].v) = 1
    /\ HealthyTensor(input.v[1].v[1])
    /\ type(simple.val.v[1].v[1]) = "bytes"

\* C9: ordered-sequence round trip.  For a list or tuple seq (its tensors'
\* codec keeping its contract), _detail(_simplify(seq)) is a list of the same
\* length whose i-th element is _detail(_simplify(seq[i])).
SequenceRoundTrip ==
    pc = "detailed" /\ type(input) \in {"list", "tuple"}
       /\ SimplifyErrors(input) = {} =>
          /\ output.ok
          /\ type(output.val) = "list"
          /\ Len(output.val.v) = Len(input.v)
          /\ \A i \in 1..Len(input.v) :
                LET r == _detail(_simplify(input.v[i]).val)
                IN  r.ok /\ output.val.v[i] = r.val

\* C10: frame.  No call changes a registry or its argument: the caller's
\* object, the simplified object given to _detail, the bytes given to
\* deserialize.
Frame ==
    [][/\ simplifiers' = simplifiers
       /\ detailers' = detailers
       /\ input' = input
       /\ pc' = "detailed" => simple'.val = simple.val
       /\ pc' \in {"deserialized", "deserialized_frame"} => message'.val = message.val]_vars

\* a list holding a tensor went through _simplify_collection and
\* _detail_collection
FrameWitness ==
    /\ pc = "detailed"
    /\ output.ok
    /\ type(input) = "list" /\ Len(input.v) = 2
    /\ HealthyTensor(input.v[1])
    /\ type(simple.val.v[1]) = "bytes"

============================================================================
